---- MODULE Spec2Model ----
(***************************************************************************)
(* The TTL cache of atomic_tools/infrastructure.py (the module-level       *)
(* dictionary _cache_store and the three coroutines cache_data,            *)
(* get_cached_data and clear_cache of InfrastructureTools), together with  *)
(* the tool wrappers of main.py that expose them.                          *)
(*                                                                         *)
(* Time is the reading of datetime.now(), counted in clock ticks.  Cache   *)
(* keys and patterns are Python strings, modelled as sequences of          *)
(* one-character strings.  The cached data are Python dictionaries, which  *)
(* are mutable objects: a value is the identity of an object (a            *)
(* reference) and heap gives each object's present content.                *)
(***************************************************************************)
EXTENDS Integers, Sequences, FiniteSets, TLC

\* ------------------------------------------------------------------ bounds

\* The last clock reading the model explores.
MaxTime == 2

\* The largest ordinary ttl_seconds a caller passes.
MaxTtl == 1

\* The last clock reading of the specification that runs the handlers one
\* statement at a time.
ConcMaxTime == 1

\* The span of the instants datetime can represent, on the model's scale: an
\* expiry time further than this from the model's first clock reading makes
\* datetime.now() + timedelta(...) raise OverflowError.
DatetimeMax == 5

\* ------------------------------------------------------------------ inputs

\* Cache keys: "w_p" and "f_p" (weather_paris and forecast_paris, abbreviated).
Keys == { <<"w", "_", "p">>, <<"f", "_", "p">> }

\* Patterns handed to clear_cache: substrings, non-substrings, the empty
\* string and strings with glob and regex metacharacters.
Patterns == { <<"w", "_">>, <<"_", "p">>, <<>>, <<"*">>, <<"w", ".", "p">>,
              <<"w", "_", "p", "x">> }

\* Optional[str] for the pattern argument: {} is None, {p} is the string p.
PatternArgs == {{}} \cup { {p} : p \in Patterns }

\* The dictionaries a caller caches, by identity, and their possible contents.
Refs == {"r1", "r2"}
Contents == {"c1", "c2"}

\* Python's None as the result of get_cached_data.
None == "None"

\* ttl_seconds: negative, zero, positive, and two so large (one positive, one
\* negative) that the expiry time cannot be represented at any clock reading.
HugeTtl == DatetimeMax + MaxTime + 1
Ttls == {0 - HugeTtl, 0 - 1, 0, MaxTtl, HugeTtl}

VARIABLES
    store,      \* _cache_store: key -> entry, for the keys that have an entry
    now,        \* the reading of datetime.now()
    heap,       \* the content of each cached dictionary object
    lastOp,     \* the last call made and what it returned to its caller
    lastPut,    \* per key, the arguments of the last successful cache_data
                \* that no clear_cache has removed since
    pc,         \* per task, the statement of its handler it is to execute next
    frame,      \* per task, the arguments and local variables of its handler
    source_data,    \* the structure a caller hands to extract_data_fields
    field_mapping,  \* the mapping it hands over: the items (new_field, source_path)
    extracted,      \* the outcome of the caller's last extract_data_fields call
    firstExtracted, \* the outcome of its first call
    otherCalled,    \* whether it has extracted from other arguments since
    vaultCalls,     \* the names the key vault service was asked for, in order
    lastSecret,     \* the last get_secret call and its outcome
    httpSession,    \* whether HTTPAPITools holds a requests session
    requestLog,     \* the hosts HTTP requests were sent to, in order
    lastHttp,       \* the last http_request call and its outcome
    inflight,       \* per task, the cache call it has in flight on the event loop
    overlap,        \* what changed the store while the call that ran last was in
                    \* flight
    validation,     \* the arguments of validate_api_response and its result
    metrics,        \* the arguments of calculate_metrics and its result
    openai_key,     \* AIProcessingTools._openai_key
    completions,    \* per task, where its ai_completion call stands
    retrievals      \* how many retrievals of the OpenAI key have succeeded and
                    \* how many have failed

\* The variables of the field extraction.
ext == <<source_data, field_mapping, extracted, firstExtracted, otherCalled>>

\* The variables of the secret retrieval.
sec == <<vaultCalls, lastSecret>>

\* The variables of the tools that do not touch the cache.
\* The variables of the HTTP requests.
http == <<httpSession, requestLog, lastHttp>>

\* The variables of the event loop's tasks.
loop == <<inflight, overlap>>

\* The variables of the remaining tools.
ai == <<openai_key, completions, retrievals>>
rest == <<validation, metrics, ai>>

tools == <<ext, sec, http, loop, rest>>

vars == <<store, now, heap, lastOp, lastPut, pc, frame, tools>>

\* The variables of the calls that run one statement at a time.
conc == <<pc, frame>>

\* The variables that only the calls that run as a whole use.
seq == <<heap, lastOp, lastPut>>

\* ----------------------------------------------------------- pure helpers

\* k.startswith(pattern) in the place of `pattern in k`.
StrInPrefix(pattern, k) ==
    Len(pattern) <= Len(k) /\ SubSeq(k, 1, Len(pattern)) = pattern

\* A containment test that the empty pattern never passes.
StrInNonEmpty(pattern, k) ==
    pattern # <<>> /\ \E i \in 0 .. (Len(k) - Len(pattern)) :
                         SubSeq(k, i + 1, i + Len(pattern)) = pattern

\* Python's `pattern in k` for two strings: the scan for the first position
\* at which pattern occurs in k.
RECURSIVE StrIn(_, _)
StrIn(pattern, k) ==
    IF Len(pattern) > Len(k) THEN FALSE
    ELSE IF SubSeq(k, 1, Len(pattern)) = pattern THEN TRUE
    ELSE StrIn(pattern, Tail(k))

\* An expiry test that finds every entry expired.
IsExpiredAlways(t, entry) == TRUE

\* >= in the place of >.
IsExpiredInclusive(t, entry) == t >= entry.expires_at

\* datetime.now() > cache_entry["expires_at"]
IsExpired(t, entry) == t > entry.expires_at

\* datetime.now() + timedelta(seconds=ttl_seconds) raises OverflowError when
\* the sum is not a representable datetime.
ExpiryOverflows(t, ttl) == t + ttl > DatetimeMax \/ t + ttl < 0 - DatetimeMax

\* The dictionary literal stored under a key.
MakeEntry(data, expiry, cached) ==
    [data |-> data, expires_at |-> expiry, cached_at |-> cached]

\* _cache_store.setdefault(key, entry) in the place of the assignment.
StoreSetDefault(st, key, entry) ==
    [x \in (DOMAIN st) \cup {key} |-> IF x \in DOMAIN st THEN st[x] ELSE entry]

\* _cache_store[key] = entry
StoreSet(st, key, entry) ==
    [x \in (DOMAIN st) \cup {key} |-> IF x = key THEN entry ELSE st[x]]

\* del _cache_store[key], for each key of ks in turn
StoreDel(st, ks) == [x \in (DOMAIN st) \ ks |-> st[x]]

\* _cache_store.clear(), and the dictionary the module starts with
EmptyStore == [x \in {} |-> x]

\* keys_to_remove = [k for k in _cache_store.keys() if pattern in k]
KeysToRemove(st, p) == { k \in DOMAIN st : StrIn(p, k) }

\* The outcome of a handler's try block: it returned ret, or it raised.
Returned(st, ret) == [store |-> st, raised |-> FALSE, ret |-> ret]
Raised(st) == [store |-> st, raised |-> TRUE, ret |-> "exception"]

\* A handler without its except clause.
CatchNothing(outcome, fallback) == outcome

\* `except Exception as e: ... return fallback`
CatchAll(outcome, fallback) ==
    IF outcome.raised THEN Returned(outcome.store, fallback) ELSE outcome

\* ------------------------------------------------------------ the handlers

\* cache_data with the ttl left out of the expiry time.
CacheDataBodyNoTtl(st, t, key, data, ttl) ==
    IF ExpiryOverflows(t, ttl)
    THEN Raised(st)
    ELSE Returned(StoreSet(st, key, MakeEntry(data, t, t)), TRUE)

\* cache_data that stores the entry before it computes the expiry time.
CacheDataBodyWriteFirst(st, t, key, data, ttl) ==
    IF ExpiryOverflows(t, ttl)
    THEN Raised(StoreSet(st, key, MakeEntry(data, t, t)))
    ELSE Returned(StoreSet(st, key, MakeEntry(data, t + ttl, t)), TRUE)

\* InfrastructureTools.cache_data: the try block.  The call runs within one
\* clock reading t: lines 73 and 78 read the same datetime.now().
CacheDataBody(st, t, key, data, ttl) ==
    IF ExpiryOverflows(t, ttl)
    THEN Raised(st)
    ELSE Returned(StoreSet(st, key, MakeEntry(data, t + ttl, t)), TRUE)

\* get_cached_data over a store that creates an entry for a key it is asked
\* for (a defaultdict).
GetCachedDataBodyDefaulting(st, t, key) ==
    IF key \notin DOMAIN st
    THEN Returned(StoreSet(st, key, MakeEntry(None, t, t)), None)
    ELSE IF IsExpired(t, st[key])
         THEN Returned(StoreDel(st, {key}), None)
         ELSE Returned(st, st[key].data)

\* get_cached_data that sweeps every expired entry when it is called.
GetCachedDataBodySweeping(st, t, key) ==
    LET swept == StoreDel(st, { k \in DOMAIN st : IsExpired(t, st[k]) }) IN
    IF key \notin DOMAIN st
    THEN Returned(swept, None)
    ELSE IF IsExpired(t, st[key])
         THEN Returned(swept, None)
         ELSE Returned(swept, st[key].data)

\* get_cached_data that renews the entry's expiry time on a hit.
GetCachedDataBodyRefreshing(st, t, key) ==
    IF key \notin DOMAIN st
    THEN Returned(st, None)
    ELSE IF IsExpired(t, st[key])
         THEN Returned(StoreDel(st, {key}), None)
         ELSE Returned(StoreSet(st, key, MakeEntry(st[key].data, t + 1, st[key].cached_at)),
                       st[key].data)

\* InfrastructureTools.get_cached_data: the try block.
GetCachedDataBody(st, t, key) ==
    IF key \notin DOMAIN st
    THEN Returned(st, None)
    ELSE IF IsExpired(t, st[key])
         THEN Returned(StoreDel(st, {key}), None)
         ELSE Returned(st, st[key].data)

\* clear_cache losing its count when it clears everything.
ClearCacheBodyUncounted(st, pattern) ==
    IF pattern = {}
    THEN Returned(EmptyStore, 0)
    ELSE LET p == CHOOSE x \in pattern : TRUE
             keys_to_remove == KeysToRemove(st, p)
         IN  Returned(StoreDel(st, keys_to_remove), Cardinality(keys_to_remove))

\* clear_cache counting the entries after it has cleared them.
ClearCacheBodyCountAfter(st, pattern) ==
    IF pattern = {}
    THEN Returned(EmptyStore, Cardinality(DOMAIN EmptyStore))
    ELSE LET p == CHOOSE x \in pattern : TRUE
             keys_to_remove == KeysToRemove(st, p)
         IN  Returned(StoreDel(st, keys_to_remove), Cardinality(keys_to_remove))

\* InfrastructureTools.clear_cache: the try block.
ClearCacheBody(st, pattern) ==
    IF pattern = {}
    THEN Returned(EmptyStore, Cardinality(DOMAIN st))
    ELSE LET p == CHOOSE x \in pattern : TRUE
             keys_to_remove == KeysToRemove(st, p)
         IN  Returned(StoreDel(st, keys_to_remove), Cardinality(keys_to_remove))

\* The three coroutines with their except clauses, and the tools of main.py
\* that await them inside a second try/except with the same fallback.
cache_data(st, t, key, data, ttl) ==
    CatchAll(CatchAll(CacheDataBody(st, t, key, data, ttl), FALSE), FALSE)

get_cached_data(st, t, key) ==
    CatchAll(CatchAll(GetCachedDataBody(st, t, key), None), None)

clear_cache(st, pattern) ==
    CatchAll(CatchAll(ClearCacheBody(st, pattern), 0), 0)

\* ------------------------------------------------------ structured values

\* A value of the JSON-like data the tools pass around, tagged with its Python
\* type.  A string is the tuple of its characters; a number is written as its
\* literal.  None is Null, whether it sits in the data or is put in a result.
Null == [t |-> "NoneType"]
Str(s) == [t |-> "str", s |-> s]
Num(s) == [t |-> "float", s |-> s]
List(l) == [t |-> "list", l |-> l]
Dict(m) == [t |-> "dict", m |-> m]

\* {}
EmptyDict == Dict([k \in {} |-> Null])

\* d[k] = v on a dict's items.
SetItem(d, k, v) == [x \in (DOMAIN d) \cup {k} |-> IF x = k THEN v ELSE d[x]]

\* ------------------------------------------------------- the path extractor

\* The decimal characters, in the order of their values.
Decimals == <<"0", "1", "2", "3", "4", "5", "6", "7", "8", "9">>

DecimalChars == { Decimals[i] : i \in 1 .. Len(Decimals) }

\* The characters str.isdigit() accepts: the decimal ones and the digits that
\* are not decimal, such as SUPERSCRIPT TWO, written "sup2" here.
DigitChars == DecimalChars \cup {"sup2"}

\* part.isdigit(): at least one character, and all of them digits.
isdigit(part) == part # <<>> /\ \A i \in 1 .. Len(part) : part[i] \in DigitChars

DecimalValue(c) == (CHOOSE i \in 1 .. Len(Decimals) : Decimals[i] = c) - 1

RECURSIVE IntValue(_, _, _)
IntValue(part, i, acc) ==
    IF i > Len(part) THEN acc
    ELSE IntValue(part, i + 1, 10 * acc + DecimalValue(part[i]))

\* int(part): the value of a string of decimal characters; a ValueError on
\* any other string.
int(part) ==
    IF part # <<>> /\ \A i \in 1 .. Len(part) : part[i] \in DecimalChars
    THEN [exc |-> "none", v |-> IntValue(part, 1, 0)]
    ELSE [exc |-> "ValueError", v |-> 0]

\* source_path.split(sep): the substrings between the separators, empty ones
\* included; a string without separator is the one substring.
RECURSIVE split(_, _)
split(s, sep) ==
    IF \A i \in 1 .. Len(s) : s[i] # sep
    THEN <<s>>
    ELSE LET i == CHOOSE i \in 1 .. Len(s) :
                      s[i] = sep /\ \A j \in 1 .. (i - 1) : s[j] # sep
         IN  <<SubSeq(s, 1, i - 1)>> \o split(SubSeq(s, i + 1, Len(s)), sep)

\* The outcome of following one path, or one part of it: the exception raised,
\* if any, and the value reached.
Reached(v) == [exc |-> "none", v |-> v]
Failed(exc) == [exc |-> exc, v |-> Null]

\* The array branch without its range test.
IndexPartUnchecked(current_value, index) ==
    IF current_value.t = "list" /\ Len(current_value.l) > 0
    THEN Reached(current_value.l[IF index < Len(current_value.l)
                                 THEN index + 1 ELSE Len(current_value.l)])
    ELSE Failed("IndexError")

\* Lines 237-240: current_value[index] of a list that has it, else IndexError.
IndexPart(current_value, index) ==
    IF current_value.t = "list" /\ 0 <= index /\ index < Len(current_value.l)
    THEN Reached(current_value.l[index + 1])
    ELSE Failed("IndexError")

\* The key branch on a dict that answers a missing key with None.
KeyPartDefaulting(current_value, part) ==
    IF current_value.t = "dict"
    THEN Reached(IF part \in DOMAIN current_value.m
                 THEN current_value.m[part] ELSE Null)
    ELSE Failed("KeyError")

\* Lines 243-246: current_value[part] of a dict that has it, else KeyError.
KeyPart(current_value, part) ==
    IF current_value.t = "dict" /\ part \in DOMAIN current_value.m
    THEN Reached(current_value.m[part])
    ELSE Failed("KeyError")

\* A body that looks a part up as a key of a dict before taking it for an
\* index.
PartKeyFirst(current_value, part) ==
    IF current_value.t = "dict" /\ part \in DOMAIN current_value.m
    THEN Reached(current_value.m[part])
    ELSE IF isdigit(part)
    THEN LET index == int(part) IN
         IF index.exc # "none"
         THEN Failed(index.exc)
         ELSE IndexPart(current_value, index.v)
    ELSE Failed("KeyError")

\* Lines 234-246, the body of the loop over the parts: a part of digits is an
\* array index, any other a key.  int() raises on a digit that is not decimal.
Part(current_value, part) ==
    IF isdigit(part)
    THEN LET index == int(part) IN
         IF index.exc # "none"
         THEN Failed(index.exc)
         ELSE IndexPart(current_value, index.v)
    ELSE KeyPart(current_value, part)

\* Lines 233-246, from part i on.  steps lists the parts gone through: the
\* part, the value it was applied to, the exception it raised and the value
\* it reached.
RECURSIVE Navigate(_, _, _, _)
Navigate(path_parts, i, current_value, steps) ==
    IF i > Len(path_parts)
    THEN [exc |-> "none", v |-> current_value, steps |-> steps]
    ELSE LET r == Part(current_value, path_parts[i])
             done == Append(steps, [part |-> path_parts[i], at |-> current_value,
                                    exc |-> r.exc, to |-> r.v])
         IN  IF r.exc # "none"
             THEN [exc |-> r.exc, v |-> Null, steps |-> done]
             ELSE Navigate(path_parts, i + 1, r.v, done)

\* Lines 230-246: split the path and navigate step by step from the source.
FollowPath(source, source_path) == Navigate(split(source_path, "."), 1, source, <<>>)

\* An except clause that gives the prefix reached so far.
KeepReached(r) == IF r.steps = <<>> THEN r.v ELSE r.steps[Len(r.steps)].at

\* A store that keeps scalars only and drops a nested dict or list.
FieldValueScalar(r) ==
    IF r.exc = "none" /\ r.v.t \notin {"dict", "list"} THEN r.v ELSE Null

\* Lines 248-253: the value stored under new_field, None after one of the
\* exceptions the inner except clause names.
FieldValue(r) == IF r.exc = "none" THEN r.v ELSE Null

\* except (KeyError, IndexError, TypeError)
CaughtPerField == {"KeyError", "IndexError", "TypeError"}

\* The record of an extract_data_fields call: whether it raised to its caller,
\* with what, and if not the dict it returned.  trails lists, item by item,
\* the steps gone through; cacheOp is the cache's last call before this one.
NoExtract == [called |-> FALSE, raised |-> FALSE, exc |-> "none",
              ret |-> EmptyDict.m, trails |-> <<>>, cacheOp |-> "init"]

\* Lines 225-256: the loop over field_mapping.items(), from item i on.  An
\* exception the inner except clause does not name leaves the loop.
RECURSIVE ExtractItems(_, _, _, _, _)
ExtractItems(source, items, i, result, trails) ==
    IF i > Len(items)
    THEN [NoExtract EXCEPT !.called = TRUE, !.ret = result, !.trails = trails]
    ELSE LET r == FollowPath(source, items[i][2])
             ts == Append(trails, r.steps)
         IN  IF r.exc = "none" \/ r.exc \in CaughtPerField
             THEN ExtractItems(source, items, i + 1,
                               SetItem(result, items[i][1], FieldValue(r)), ts)
             ELSE [NoExtract EXCEPT !.called = TRUE, !.raised = TRUE,
                                    !.exc = r.exc, !.trails = ts]

\* Lines 258-260, and 266-268 of the tool wrapper: log and raise again.
LogAndReraise(outcome) == outcome

\* An extractor that keeps its result dict from one call to the next: after a
\* call for other arguments the dict still holds that call's field.
extract_data_fields_kept(source, mapping) ==
    LogAndReraise(LogAndReraise(
        ExtractItems(source, mapping, 1,
                     IF otherCalled THEN ("stale" :> Null) ELSE EmptyDict.m, <<>>)))

\* AIProcessingTools.extract_data_fields under its tool wrapper.
extract_data_fields(source, mapping) ==
    LogAndReraise(LogAndReraise(ExtractItems(source, mapping, 1, EmptyDict.m, <<>>)))

\* -------------------------------------------------- the extractor's inputs

\* The most parts a generated path has.
MaxSegs == 3

\* The parts the generated paths are made of: two keys, two indices, the empty
\* part, a digit that is not decimal, an index with a leading zero and a
\* signed number.
Segments == { <<"a">>, <<"b">>, <<"0">>, <<"1">>, <<>>, <<"sup2">>, <<"0", "1">>,
              <<"-", "1">> }

\* sep.join(parts)
RECURSIVE Join(_, _)
Join(parts, sep) ==
    IF Len(parts) = 1 THEN parts[1]
    ELSE parts[1] \o <<sep>> \o Join(Tail(parts), sep)

\* The path strings: up to MaxSegs parts joined by dots.
Paths == { Join(ps, ".") : ps \in UNION { [1 .. n -> Segments] : n \in 1 .. MaxSegs } }

\* A dict with keys of every kind, holding dicts, lists, scalars and None.
NestedSource ==
    Dict( (<<"a">> :> Dict( (<<"a">> :> Str(<<"x">>)) @@ (<<"b">> :> Null)
                            @@ (<<"0">> :> Str(<<"k">>)) ))
       @@ (<<"b">> :> List(<< Dict( (<<"a">> :> Str(<<"y">>))
                                    @@ (<<>> :> Str(<<"e">>)) ),
                              List(<< Str(<<"p">>), Str(<<"q">>) >>) >>))
       @@ (<<"0">> :> Str(<<"z">>))
       @@ (<<>> :> Dict(<<"a">> :> Num("1")))
       @@ (<<"sup2">> :> Str(<<"t">>)) )

\* A list at the top.
ListSource == List(<< Str(<<"s">>), Dict(<<"a">> :> List(<< Num("2") >>)) >>)

\* {"0": "a"}
DigitKeySource == Dict(<<"0">> :> Str(<<"a">>))

Sources == { NestedSource, ListSource, DigitKeySource, EmptyDict, Str(<<"s">>), Null }

\* Paths for a second item: one that resolves in NestedSource, one that fails
\* there, one that int() refuses.
OtherPaths == { <<"a", ".", "a">>, <<"b", ".", "a">>, <<"sup2">> }

\* The mappings, as their items in order: none, one item, or two.
Mappings ==
    {<<>>} \cup { << <<"f", p>> >> : p \in Paths }
           \cup { << <<"f", p>>, <<"g", q>> >> : p \in Paths, q \in OtherPaths }

\* The data of test_ai_tools.
ExampleSource ==
    Dict( (<<"m", "a", "i", "n">> :>
              Dict( (<<"t", "e", "m", "p">> :> Num("20.5"))
                    @@ (<<"h", "u", "m", "i", "d", "i", "t", "y">> :> Num("65")) ))
       @@ (<<"w", "e", "a", "t", "h", "e", "r">> :>
              List(<< Dict(<<"d", "e", "s", "c", "r", "i", "p", "t", "i", "o", "n">>
                           :> Str(<<"s", "u", "n", "n", "y">>)) >>))
       @@ (<<"n", "a", "m", "e">> :> Str(<<"P", "a", "r", "i", "s">>)) )

ExampleMapping ==
    << <<"temperature", <<"m", "a", "i", "n", ".", "t", "e", "m", "p">> >>,
       <<"condition", <<"w", "e", "a", "t", "h", "e", "r", ".", "0", ".",
                        "d", "e", "s", "c", "r", "i", "p", "t", "i", "o", "n">> >>,
       <<"city", <<"n", "a", "m", "e">> >> >>

\* A field the example data lacks.
PressureMapping ==
    << <<"pressure", <<"m", "a", "i", "n", ".",
                       "p", "r", "e", "s", "s", "u", "r", "e">> >> >>

\* The arguments a caller may hold.
ExtractInputs ==
    (Sources \X Mappings)
       \cup { <<ExampleSource, ExampleMapping>>, <<ExampleSource, PressureMapping>> }

\* The arguments of the runs that mix extraction with other calls.
FewInputs ==
    { in \in ExtractInputs :
         \A i \in 1 .. Len(in[2]) : in[2][i][2] \in OtherPaths \cup {<<"0">>} }

\* ------------------------------------------------------------ the secrets

ALLOWED_SECRETS == {"OWM-API-KEY", "OPENAI-API-KEY"}

\* The names a caller may ask for: the allowed ones, one in another case, one
\* the vault may hold but the list does not name, and the empty name.
SecretNames == ALLOWED_SECRETS \cup {"owm-api-key", "DB-PASSWORD", ""}

\* The most calls the key vault service is followed through.
MaxVaultCalls == 4

\* What the key vault service does with a call: it raises, or returns the
\* secret's current value.
VaultOutcomes == { [raised |-> TRUE, value |-> ""],
                   [raised |-> FALSE, value |-> "v1"],
                   [raised |-> FALSE, value |-> "v2"] }

\* The record of a get_secret call: the name asked for, the exception raised
\* to the caller, if any, and the value returned.
NoSecret == [called |-> FALSE, name |-> "", exc |-> "none", value |-> ""]

\* A guard that lets every name through.
DeniedNever(secret_name) == FALSE

\* Line 42: secret_name not in ALLOWED_SECRETS
Denied(secret_name) == secret_name \notin ALLOWED_SECRETS

\* Lines 42-53: the calls made to the key vault service so far, with this
\* one's if it is made, and the outcome for the caller.
GetSecretBody(calls, secret_name, vault) ==
    IF Denied(secret_name)
    THEN [calls |-> calls,
          out |-> [NoSecret EXCEPT !.called = TRUE, !.name = secret_name,
                                   !.exc = "SecurityError"]]
    ELSE [calls |-> Append(calls, secret_name),
          out |-> IF vault.raised
                  THEN [NoSecret EXCEPT !.called = TRUE, !.name = secret_name,
                                        !.exc = "RuntimeError"]
                  ELSE [NoSecret EXCEPT !.called = TRUE, !.name = secret_name,
                                        !.value = vault.value]]

\* InfrastructureTools.get_secret under its tool wrapper, which logs and
\* raises again.
get_secret(calls, secret_name, vault) ==
    LogAndReraise(GetSecretBody(calls, secret_name, vault))

\* ------------------------------------------------------ the HTTP requests

\* A URL is the tuple of its pieces: a scheme with its colon, the two
\* slashes, names, and the delimiters "@", ":", "/", "?" and "#".
ALLOWED_DOMAINS == { <<"api.openweathermap.org">>, <<"api.openai.com">>,
                     <<"httpbin.org">> }

\* The hosts that answer requests: allowed ones and one that is not.
Hosts == {"api.openai.com", "httpbin.org", "evil.example"}

\* The URLs a caller may pass: an allowed host, an allowed host that may
\* redirect, another host, an allowed name as user information of another
\* host, an allowed host with a port, a URL without scheme, and an allowed
\* name in the path of another host.
Urls == { <<"https:", "//", "api.openai.com", "/", "v1">>,
          <<"https:", "//", "httpbin.org", "/", "redirect-to">>,
          <<"https:", "//", "evil.example", "/">>,
          <<"https:", "//", "api.openai.com", "@", "evil.example", "/">>,
          <<"https:", "//", "api.openai.com", ":", "443", "/">>,
          <<"api.openai.com", "/">>,
          <<"https:", "//", "evil.example", "/", "api.openai.com">> }

\* The pieces that end the network location.
AfterNetloc == {"/", "?", "#"}

\* The place of the first piece of the network location, after the two
\* slashes that follow the scheme; 0 if there is none.
NetlocStart(url) ==
    IF Len(url) >= 2 /\ url[1] \notin AfterNetloc /\ url[2] = "//" THEN 3 ELSE 0

\* The place of the last piece of the network location that starts at `from`.
RECURSIVE NetlocEnd(_, _)
NetlocEnd(url, from) ==
    IF from > Len(url) \/ url[from] \in AfterNetloc THEN from - 1
    ELSE NetlocEnd(url, from + 1)

\* urlparse(url).netloc: what stands between the two slashes and the next
\* "/", "?" or "#", user information and port included; empty without "//".
netloc(url) ==
    IF NetlocStart(url) = 0 THEN <<>>
    ELSE SubSeq(url, NetlocStart(url), NetlocEnd(url, NetlocStart(url)))

\* The host the session connects to: the network location without user
\* information and port.
RECURSIVE hostname(_)
hostname(loc) ==
    IF \E n \in 1 .. Len(loc) : loc[n] = "@"
    THEN hostname(Tail(loc))
    ELSE IF loc = <<>> THEN "" ELSE loc[1]

\* Line 66: domain not in ALLOWED_DOMAINS
DomainDenied(url) == netloc(url) \notin ALLOWED_DOMAINS

\* The redirects a session follows before it gives up.
MaxRedirects == 1

\* What a host does with a request: it answers with a success or an error
\* status, fails to answer, or redirects to a host.
Answers ==
    { [kind |-> k, to |-> ""] : k \in {"ok", "status_error", "no_answer"} }
       \cup { [kind |-> "redirect", to |-> h] : h \in Hosts }

\* The answers a call may meet, one per request it sends.
AnswerSeqs == [1 .. (MaxRedirects + 1) -> Answers]

\* Line 85, session.request(method, url, ...) with the session's defaults and
\* line 86, raise_for_status(): the request is sent to the host; a redirect is
\* followed with a request to the host it names, up to the session's limit.
RECURSIVE SessionRequest(_, _, _, _)
SessionRequest(host, answers, n, sent) ==
    LET done == Append(sent, host) IN
    IF answers[n].kind = "redirect"
    THEN IF n > MaxRedirects
         THEN [sent |-> done, exc |-> "TooManyRedirects"]
         ELSE SessionRequest(answers[n].to, answers, n + 1, done)
    ELSE [sent |-> done,
          exc |-> IF answers[n].kind = "ok" THEN "none"
                  ELSE IF answers[n].kind = "status_error" THEN "HTTPError"
                  ELSE "ConnectionError"]

\* The record of an http_request call: the URL, the exception raised to the
\* caller, if any, and the hosts it sent requests to.
NoHttp == [called |-> FALSE, url |-> <<>>, exc |-> "none", sent |-> <<>>]

\* Lines 64-109: the session after the call and the call's outcome.
HttpRequestBody(session, url, answers) ==
    IF DomainDenied(url)
    THEN [session |-> session,
          out |-> [NoHttp EXCEPT !.called = TRUE, !.url = url,
                                 !.exc = "SecurityError"]]
    ELSE LET r == SessionRequest(hostname(netloc(url)), answers, 1, <<>>) IN
         [session |-> TRUE,
          out |-> [NoHttp EXCEPT !.called = TRUE, !.url = url, !.sent = r.sent,
                                 !.exc = IF r.exc = "none" THEN "none"
                                         ELSE "RuntimeError"]]

\* HTTPAPITools.http_request under its tool wrapper, which logs and raises
\* again.
http_request(session, url, answers) ==
    LogAndReraise(HttpRequestBody(session, url, answers))

\* The most requests followed through.
MaxRequests == 3

\* ----------------------------------------------------------------- actions

\* The record of a call: the operation, its arguments, whether it raised to
\* its caller and, if not, what it returned: ok for cache_data, val for
\* get_cached_data, count for clear_cache.  prev is the data the key's entry
\* held when the call was made.
NoOp == [op |-> "init", key |-> <<>>, data |-> None, pattern |-> {}, ttl |-> 0,
         raised |-> FALSE, ok |-> FALSE, val |-> None, count |-> 0, prev |-> None]

\* Each dictionary starts with a content of its own.
InitHeap == [r \in Refs |-> IF r = "r1" THEN "c1" ELSE "c2"]

\* p occurs in k: some stretch of consecutive characters of k is p.
Occurs(p, k) == \E i \in 0 .. (Len(k) - Len(p)) : SubSeq(k, i + 1, i + Len(p)) = p

\* The keys a clear_cache call is asked to remove.
Cleared(pattern, k) == pattern = {} \/ \E p \in pattern : Occurs(p, k)

\* The data of the entry a key has, None when it has none.
PrevData(st, key) == IF key \in DOMAIN st THEN st[key].data ELSE None

\* The tasks that call the cache concurrently.
Tasks == {"t1", "t2"}

\* cache_entry before line 103 has assigned it.
NoEntry == MakeEntry(None, 0, 0)

\* The key the concurrent calls contend for.
ConcKeys == { <<"w", "_", "p">> }

\* The frame of a task that has made no call: the arguments and locals of the
\* handlers, what the call returned (ok, val, count), and for a get the entry
\* objects it read expires_at and data from (exp_src, val_src).
NoFrame == [op |-> "none", key |-> <<>>, data |-> None,
            expiry_time |-> 0, cache_entry |-> NoEntry, keys_to_remove |-> {},
            count |-> 0, ok |-> FALSE, val |-> None,
            exp_src |-> NoEntry, val_src |-> NoEntry]

\* The cache after the module is loaded: empty; no call made, no task running.
InitCache ==
    /\ store = EmptyStore
    /\ now = 0
    /\ heap = InitHeap
    /\ lastOp = NoOp
    /\ lastPut = EmptyStore
    /\ pc = [t \in Tasks |-> "idle"]
    /\ frame = [t \in Tasks |-> NoFrame]

\* No secret asked for yet.
InitSecrets ==
    /\ vaultCalls = <<>>
    /\ lastSecret = NoSecret

\* ------------------------------------------------- validate_api_response

\* The walk over the parts of a dotted field (lines 188-192): TRUE when it
\* meets a value that is not a dict or a part that is not a key of it.
RECURSIVE PartsMissing(_, _)
PartsMissing(current_data, field_parts) ==
    IF field_parts = <<>> THEN FALSE
    ELSE IF current_data.t # "dict" \/ Head(field_parts) \notin DOMAIN current_data.m
         THEN TRUE
         ELSE PartsMissing(current_data.m[Head(field_parts)], Tail(field_parts))

\* A check of required fields that looks every name up at the top only.
FieldMissingFlat(response_data, field) == field \notin DOMAIN response_data.m

\* Lines 183-196 for one name of required_fields: is it appended to
\* missing_fields.
FieldMissing(response_data, field) ==
    IF \E i \in 1 .. Len(field) : field[i] = "."
    THEN PartsMissing(response_data, split(field, "."))
    ELSE field \notin DOMAIN response_data.m

\* What validate_api_response hands back.
Validation(valid, missing_fields, errors) ==
    [valid |-> valid, missing_fields |-> missing_fields, errors |-> errors,
     raised |-> FALSE]

\* Lines 182-196: the required fields that are appended to missing_fields, in
\* order.
RECURSIVE MissingFields(_, _)
MissingFields(response_data, required_fields) ==
    IF required_fields = <<>> THEN <<>>
    ELSE (IF FieldMissing(response_data, Head(required_fields).s)
          THEN <<Head(required_fields)>> ELSE <<>>)
         \o MissingFields(response_data, Tail(required_fields))

\* HTTPAPITools.validate_api_response.  '.' in field raises TypeError for a
\* field that is not a string, which the except clause of lines 206-212
\* answers.
validate_api_response(response_data, required_fields, response_type) ==
    IF response_type = "json" /\ response_data.t # "dict"
    THEN Validation(FALSE, <<>>, <<"Expected dict">>)
    ELSE IF response_data.t # "dict"
    THEN Validation(TRUE, <<>>, <<>>)
    ELSE IF \E i \in 1 .. Len(required_fields) : required_fields[i].t # "str"
    THEN Validation(FALSE, <<>>, <<"Validation error">>)
    ELSE LET missing_fields == MissingFields(response_data, required_fields) IN
         IF missing_fields # <<>>
         THEN Validation(FALSE, missing_fields, <<"Missing required fields">>)
         ELSE Validation(TRUE, <<>>, <<>>)

\* The parts of the required fields checked.
FieldParts == { <<"a">>, <<"b">>, <<"0">>, <<>> }

\* The names of required fields: up to MaxSegs parts joined by dots.
FieldNames ==
    { Str(Join(ps, ".")) : ps \in UNION { [1 .. n -> FieldParts] : n \in 1 .. MaxSegs } }

\* The lists of required fields: none, one name, two names, the same name
\* twice, and a list with a number in it.
RequiredFields ==
    {<<>>} \cup { <<f>> : f \in FieldNames }
           \cup { <<f, g>> : f \in FieldNames,
                             g \in { Str(<<"a", ".", "a">>), Str(<<"b", ".", "a">>),
                                     Str(<<"x">>) } }
           \cup { <<Str(<<"x">>), Num("5")>> }

\* The arguments of validate_api_response.
ValidateInputs == Sources \X RequiredFields \X {"json", "xml"}

\* The arguments held, validate_api_response not called yet.
NoValidation(in) ==
    [called |-> FALSE, response_data |-> in[1], required_fields |-> in[2],
     response_type |-> in[3], valid |-> FALSE, missing_fields |-> <<>>,
     errors |-> <<>>, raised |-> FALSE]

\* ------------------------------------------------------ calculate_metrics

\* A Python int, and the float that a / b is: the quotient itself, in lowest
\* terms.
Integer(n) == [t |-> "int", n |-> n]

Abs(n) == IF n < 0 THEN 0 - n ELSE n

RECURSIVE GCD(_, _)
GCD(a, b) == IF b = 0 THEN a ELSE GCD(b, a % b)

Float(num, den) ==
    LET g == GCD(Abs(num), den) IN
    [t |-> "float", num |-> num \div g, den |-> den \div g]

\* The most fields a calculation names.
MaxFields == 3

\* A dict without items.
NoItems == [k \in {} |-> Null]

\* d.get(key, default)
Get(d, key, default) == IF key \in DOMAIN d THEN d[key] ELSE default

\* [input_data.get(field, 0) for field in fields]
FieldValues(input_data, fields) ==
    [i \in 1 .. Len(fields) |-> Get(input_data, fields[i], Integer(0))]

\* The arithmetic and the comparisons of the five operations are defined for
\* numbers; None in them raises TypeError.
Numbers(values) == \A i \in 1 .. Len(values) : values[i].t = "int"

\* sum(values)
RECURSIVE Sum(_)
Sum(values) == IF values = <<>> THEN 0 ELSE Head(values).n + Sum(Tail(values))

\* The outcome of one calculation: the value computed, or the exception.
Calculated(v) == [exc |-> "none", v |-> v]
CalcFailed(exc) == [exc |-> exc, v |-> Null]

\* Lines 287-310: the branch taken for the operation and the number of
\* fields, and what it computes.
Calculate(input_data, operation, fields) ==
    LET values == FieldValues(input_data, fields)
        ns == { values[i].n : i \in 1 .. Len(values) } IN
    IF operation = "subtract" /\ Len(fields) = 2
    THEN IF Numbers(values) THEN Calculated(Integer(values[1].n - values[2].n))
         ELSE CalcFailed("TypeError")
    ELSE IF operation = "add" /\ Len(fields) >= 2
    THEN IF Numbers(values) THEN Calculated(Integer(Sum(values)))
         ELSE CalcFailed("TypeError")
    ELSE IF operation = "average" /\ Len(fields) >= 2
    THEN IF Numbers(values) THEN Calculated(Float(Sum(values), Len(values)))
         ELSE CalcFailed("TypeError")
    ELSE IF operation = "max" /\ Len(fields) >= 2
    THEN IF Numbers(values)
         THEN Calculated(Integer(CHOOSE n \in ns : \A m \in ns : m <= n))
         ELSE CalcFailed("TypeError")
    ELSE IF operation = "min" /\ Len(fields) >= 2
    THEN IF Numbers(values)
         THEN Calculated(Integer(CHOOSE n \in ns : \A m \in ns : n <= m))
         ELSE CalcFailed("TypeError")
    ELSE Calculated(Null)

\* A value that can be the key of a dict.
Hashable(v) == v.t \notin {"list", "dict"}

\* What calculate_metrics hands back or raises.
MetricsOut(exc, ret) == [raised |-> exc # "none", exc |-> exc, ret |-> ret]

\* Lines 281-317 from one calculation on.  results[calc_name] = ... raises
\* TypeError for a name that cannot be hashed, inside the try of line 286 and
\* again at line 314 inside its except clause, from where it reaches the
\* except clause of lines 319-321.
RECURSIVE CalculateFrom(_, _, _)
CalculateFrom(input_data, calculations, results) ==
    IF calculations = <<>> THEN MetricsOut("none", results)
    ELSE LET calc == Head(calculations)
             calc_name == Get(calc, "name", Str("unknown"))
             operation == Get(calc, "operation", "")
             fields == Get(calc, "fields", <<>>)
             out == Calculate(input_data, operation, fields)
         IN  IF ~Hashable(calc_name) THEN MetricsOut("ValueError", NoItems)
             ELSE CalculateFrom(input_data, Tail(calculations),
                                SetItem(results, calc_name,
                                        IF out.exc = "none" THEN out.v ELSE Null))

\* AIProcessingTools.calculate_metrics under its tool of main.py, which logs
\* and raises again.
calculate_metrics(input_data, calculations) ==
    CalculateFrom(input_data, calculations, NoItems)

\* The fields of the data of test_ai_tools; humidity is in no input here.
MetricFields == {"max_temp", "min_temp", "humidity"}

\* The input data: max_temp a number, None or missing, min_temp a number or
\* missing.
MetricInputs ==
    { a @@ b : a \in {NoItems, "max_temp" :> Integer(25), "max_temp" :> Null},
               b \in {NoItems, "min_temp" :> Integer(18)} }

\* The five operations and one that is none of them.
Operations == {"subtract", "add", "average", "max", "min", "median"}

FieldLists == UNION { [1 .. n -> MetricFields] : n \in 0 .. MaxFields }

\* A calculation definition.
Calc(name, operation, fields) ==
    ("name" :> name) @@ ("operation" :> operation) @@ ("fields" :> fields)

\* The calculations whose operation and fields vary, under a name or under a
\* list given as the name.
FirstCalcs ==
    { Calc(name, operation, fields) :
         name \in {Str("temp_range"), List(<<Str("temp_range")>>)},
         operation \in Operations, fields \in FieldLists }

\* The calculations beside them: the average of test_ai_tools, a calculation
\* of the same name as the first, and one without keys.
OtherCalcs ==
    { Calc(Str("avg_temp"), "average", <<"max_temp", "min_temp">>),
      Calc(Str("temp_range"), "add", <<"max_temp", "min_temp">>),
      NoItems }

\* The lists of calculations: none, one, or two in either order.
Calculations ==
    {<<>>} \cup { <<c>> : c \in FirstCalcs }
           \cup { <<c, o>> : c \in FirstCalcs, o \in OtherCalcs }
           \cup { <<o, c>> : c \in FirstCalcs, o \in OtherCalcs }

MetricsInputs == MetricInputs \X Calculations

\* The arguments held, calculate_metrics not called yet.
NoMetrics(in) ==
    [called |-> FALSE, input_data |-> in[1], calculations |-> in[2],
     raised |-> FALSE, exc |-> "none", ret |-> NoItems]

\* ---------------------------------------------------------- ai_completion

\* Where an ai_completion call stands, and the api_key it holds (line 49).
AtLine(at, api_key) == [at |-> at, api_key |-> api_key]

\* A new AIProcessingTools (line 20), no ai_completion call made.
InitAi ==
    /\ openai_key = None
    /\ completions = [t \in Tasks |-> AtLine("idle", None)]
    /\ retrievals = [succeeded |-> 0, failed |-> 0]

InitRest ==
    /\ validation = NoValidation(<<EmptyDict, <<>>, "json">>)
    /\ metrics = NoMetrics(<<NoItems, <<>> >>)
    /\ InitAi

\* A task without a call in flight.
NoCall == [op |-> "none", key |-> <<>>, data |-> None, ttl |-> 0, pattern |-> {},
           raced |-> "no"]

\* No call in flight.
InitLoop ==
    /\ inflight = [t \in Tasks |-> NoCall]
    /\ overlap = "no"

\* No request made yet, no session created.
InitHttp ==
    /\ httpSession = FALSE
    /\ requestLog = <<>>
    /\ lastHttp = NoHttp

\* A caller holding the arguments `in` that has not extracted yet.
InitArguments(in) ==
    /\ source_data = in[1]
    /\ field_mapping = in[2]
    /\ extracted = NoExtract
    /\ firstExtracted = NoExtract
    /\ otherCalled = FALSE

Init ==
    /\ InitCache
    /\ InitArguments(<<EmptyDict, <<>> >>)
    /\ InitSecrets
    /\ InitHttp
    /\ InitLoop
    /\ InitRest

\* A caller caches the dictionary `data` under `key`.
CacheData(key, data, ttl) ==
    LET out == cache_data(store, now, key, data, ttl) IN
    /\ store' = out.store
    /\ lastOp' = [NoOp EXCEPT !.op = "put", !.key = key, !.data = data, !.ttl = ttl,
                              !.raised = out.raised,
                              !.ok = IF out.raised THEN FALSE ELSE out.ret,
                              !.prev = PrevData(store, key)]
    /\ lastPut' = IF (~out.raised) /\ out.ret
                  THEN StoreSet(lastPut, key,
                                [data |-> data, ttl |-> ttl, at |-> now])
                  ELSE lastPut
    /\ UNCHANGED <<now, heap, conc, tools>>

\* A caller looks `key` up.
GetCachedData(key) ==
    LET out == get_cached_data(store, now, key) IN
    /\ store' = out.store
    /\ lastOp' = [NoOp EXCEPT !.op = "get", !.key = key,
                              !.raised = out.raised,
                              !.val = IF out.raised THEN None ELSE out.ret,
                              !.prev = PrevData(store, key)]
    /\ UNCHANGED <<now, heap, lastPut, conc, tools>>

\* A caller clears the cache, wholly (pattern = {}) or by pattern.
ClearCache(pattern) ==
    LET out == clear_cache(store, pattern) IN
    /\ store' = out.store
    /\ lastOp' = [NoOp EXCEPT !.op = "clear", !.pattern = pattern,
                              !.raised = out.raised,
                              !.count = IF out.raised THEN 0 ELSE out.ret]
    /\ lastPut' = [k \in { x \in DOMAIN lastPut : ~Cleared(pattern, x) } |-> lastPut[k]]
    /\ UNCHANGED <<now, heap, conc, tools>>

\* The clock advances.
Tick ==
    /\ now < MaxTime
    /\ now' = now + 1
    /\ lastOp' = [NoOp EXCEPT !.op = "tick"]
    /\ UNCHANGED <<store, heap, lastPut, conc, tools>>

\* The caller of get_cached_data changes the dictionary it was handed.
MutateReturned(c) ==
    /\ lastOp.op = "get"
    /\ lastOp.val # None
    /\ heap[lastOp.val] # c
    /\ heap' = [heap EXCEPT ![lastOp.val] = c]
    /\ lastOp' = [lastOp EXCEPT !.op = "mutate"]
    /\ UNCHANGED <<store, now, lastPut, conc, tools>>

\* The calls of the cache and the clock.
Next ==
    \/ \E key \in Keys, data \in Refs, ttl \in Ttls : CacheData(key, data, ttl)
    \/ \E key \in Keys : GetCachedData(key)
    \/ \E pattern \in PatternArgs : ClearCache(pattern)
    \/ Tick

Spec == Init /\ [][Next]_vars

\* The same, with callers that change the dictionaries they are handed.
NextAlias ==
    \/ Next
    \/ \E c \in Contents : MutateReturned(c)

SpecAlias == Init /\ [][NextAlias]_vars

\* ------------------------------------------- one statement at a time

(***************************************************************************)
(* The handlers again, each task running its handler one statement at a    *)
(* time, the statements of different tasks interleaved in any order.  The  *)
(* handlers hold no lock and await nothing, so that on a single asyncio    *)
(* event loop each call runs to its end (Spec above); this specification   *)
(* covers the host that runs them on several threads as well, each access  *)
(* to _cache_store and each reading of the clock being one step.  A pc     *)
(* "gNNN" is line NNN of infrastructure.py; a call and the first such      *)
(* statement of its handler are one step.  The for loop of clear_cache     *)
(* takes its keys in any order.                                            *)
(***************************************************************************)

\* Task t goes to statement `to` with its frame changed to fr.
Goto(t, to, fr) ==
    /\ pc' = [pc EXCEPT ![t] = to]
    /\ frame' = [frame EXCEPT ![t] = fr]

\* Task t returns: its frame keeps the call and what it returned.
Return(t, fr) ==
    Goto(t, "idle", [fr EXCEPT !.data = None, !.expiry_time = 0,
                               !.cache_entry = NoEntry, !.keys_to_remove = {}])

\* The entry read by `return cache_entry["data"]` were it to look the key up
\* in the store a second time (_cache_store[key]["data"]).
DataSourceAgain(st, fr) ==
    IF fr.key \in DOMAIN st THEN st[fr.key] ELSE NoEntry

\* The entry read by `return cache_entry["data"]`: the local cache_entry.
DataSource(st, fr) == fr.cache_entry

\* An idle task calls cache_data and runs line 73:
\* expiry_time = datetime.now() + timedelta(seconds=ttl_seconds); an
\* OverflowError is caught and False returned.
P73(t, key, data, ttl) ==
    /\ pc[t] = "idle"
    /\ LET fr == [NoFrame EXCEPT !.op = "put", !.key = key, !.data = data] IN
       IF ExpiryOverflows(now, ttl)
       THEN Return(t, [fr EXCEPT !.ok = FALSE])
       ELSE Goto(t, "p75", [fr EXCEPT !.expiry_time = now + ttl])
    /\ UNCHANGED <<store, now, seq, tools>>

\* _cache_store[key] = {...}; return True
P75(t) ==
    /\ pc[t] = "p75"
    /\ store' = StoreSet(store, frame[t].key,
                         MakeEntry(frame[t].data, frame[t].expiry_time, now))
    /\ Return(t, [frame[t] EXCEPT !.ok = TRUE])
    /\ UNCHANGED <<now, seq, tools>>

\* An idle task calls get_cached_data and runs line 99:
\* if key not in _cache_store: return None
G99(t, key) ==
    /\ pc[t] = "idle"
    /\ LET fr == [NoFrame EXCEPT !.op = "get", !.key = key] IN
       IF key \notin DOMAIN store
       THEN Return(t, fr)
       ELSE Goto(t, "g103", fr)
    /\ UNCHANGED <<store, now, seq, tools>>

\* cache_entry = _cache_store[key]; a KeyError is caught and None returned.
G103(t) ==
    /\ pc[t] = "g103"
    /\ IF frame[t].key \notin DOMAIN store
       THEN Return(t, frame[t])
       ELSE Goto(t, "g106", [frame[t] EXCEPT !.cache_entry = store[frame[t].key]])
    /\ UNCHANGED <<store, now, seq, tools>>

\* if datetime.now() > cache_entry["expires_at"]:
G106(t) ==
    /\ pc[t] = "g106"
    /\ LET fr == [frame[t] EXCEPT !.exp_src = frame[t].cache_entry] IN
       IF IsExpired(now, frame[t].cache_entry)
       THEN Goto(t, "g108", fr)
       ELSE Goto(t, "g112", fr)
    /\ UNCHANGED <<store, now, seq, tools>>

\* del _cache_store[key]; return None.  A KeyError is caught, None returned.
G108(t) ==
    /\ pc[t] = "g108"
    /\ store' = StoreDel(store, {frame[t].key})
    /\ Return(t, frame[t])
    /\ UNCHANGED <<now, seq, tools>>

\* return cache_entry["data"]
G112(t) ==
    /\ pc[t] = "g112"
    /\ LET src == DataSource(store, frame[t]) IN
       Return(t, [frame[t] EXCEPT !.val = src.data, !.val_src = src])
    /\ UNCHANGED <<store, now, seq, tools>>

\* An idle task calls clear_cache and runs line 130 or lines 136-137:
\* count = len(_cache_store), or
\* keys_to_remove = [...]; count = len(keys_to_remove)
C129(t, pattern) ==
    /\ pc[t] = "idle"
    /\ LET fr == [NoFrame EXCEPT !.op = "clear"] IN
       IF pattern = {}
       THEN Goto(t, "c131", [fr EXCEPT !.count = Cardinality(DOMAIN store)])
       ELSE LET p == CHOOSE x \in pattern : TRUE
                ks == KeysToRemove(store, p)
            IN  Goto(t, "c139", [fr EXCEPT !.keys_to_remove = ks,
                                           !.count = Cardinality(ks)])
    /\ UNCHANGED <<store, now, seq, tools>>

\* _cache_store.clear(); return count
C131(t) ==
    /\ pc[t] = "c131"
    /\ store' = EmptyStore
    /\ Return(t, frame[t])
    /\ UNCHANGED <<now, seq, tools>>

\* for key in keys_to_remove: del _cache_store[key], then return count.  A
\* KeyError (the key is gone) is caught and 0 returned.
C139(t) ==
    /\ pc[t] = "c139"
    /\ IF frame[t].keys_to_remove = {}
       THEN /\ Return(t, frame[t])
            /\ UNCHANGED store
       ELSE \E k \in frame[t].keys_to_remove :
              IF k \in DOMAIN store
              THEN /\ store' = StoreDel(store, {k})
                   /\ Goto(t, "c139", [frame[t] EXCEPT
                                          !.keys_to_remove = frame[t].keys_to_remove \ {k}])
              ELSE /\ Return(t, [frame[t] EXCEPT !.count = 0])
                   /\ UNCHANGED store
    /\ UNCHANGED <<now, seq, tools>>

\* The clock advances between two statements.
ConcTick ==
    /\ now < ConcMaxTime
    /\ now' = now + 1
    /\ UNCHANGED <<store, pc, frame, seq, tools>>

NextConc ==
    \/ \E t \in Tasks, key \in ConcKeys, data \in Refs, ttl \in Ttls :
          P73(t, key, data, ttl)
    \/ \E t \in Tasks : P75(t)
    \/ \E t \in Tasks, key \in ConcKeys : G99(t, key)
    \/ \E t \in Tasks : G103(t)
    \/ \E t \in Tasks : G106(t)
    \/ \E t \in Tasks : G108(t)
    \/ \E t \in Tasks : G112(t)
    \/ \E t \in Tasks, pattern \in PatternArgs : C129(t, pattern)
    \/ \E t \in Tasks : C131(t)
    \/ \E t \in Tasks : C139(t)
    \/ ConcTick

SpecConc == Init /\ [][NextConc]_vars

\* ------------------------------------------- calls in flight on one loop

(***************************************************************************)
(* The cache tools as the server runs them: mcp.run() drives one asyncio   *)
(* event loop, each tool call is a task of it, and several calls may be in *)
(* flight at once.  The loop runs one task at a time, and the handlers     *)
(* await nothing that suspends, so that a call, once the loop takes it up, *)
(* runs to its end before any other does.  The loop takes the calls in     *)
(* flight in any order.                                                    *)
(***************************************************************************)

\* The ttls of the calls in flight: one that is expired once the clock has
\* moved, and one that lasts.
LoopTtls == {0, MaxTtl}

\* The calls a task may have in flight.
LoopCalls ==
    { [NoCall EXCEPT !.op = "put", !.key = key, !.data = data, !.ttl = ttl] :
         key \in ConcKeys, data \in Refs, ttl \in LoopTtls }
    \cup { [NoCall EXCEPT !.op = "get", !.key = key] : key \in ConcKeys }
    \cup { [NoCall EXCEPT !.op = "clear", !.pattern = pattern] :
              pattern \in {{}, {<<"w", "_">>}} }

\* A request arrives: task t has the call in flight.
Schedule(t, call) ==
    /\ inflight[t] = NoCall
    /\ inflight' = [inflight EXCEPT ![t] = call]
    /\ lastOp' = [NoOp EXCEPT !.op = "schedule"]
    /\ UNCHANGED <<store, now, heap, lastPut, conc, ext, sec, http, overlap, rest>>

\* The calls in flight after t's call `op` has run and left the store st: t
\* has none, and the others remember op if it changed the store.
AfterRun(t, op, st) ==
    [u \in Tasks |-> IF u = t \/ inflight[u] = NoCall THEN NoCall
                     ELSE IF st # store THEN [inflight[u] EXCEPT !.raced = op]
                     ELSE inflight[u]]

\* The loop runs t's cache_data call to its end.
RunPut(t) ==
    /\ inflight[t].op = "put"
    /\ LET key == inflight[t].key
           data == inflight[t].data
           ttl == inflight[t].ttl
           out == cache_data(store, now, key, data, ttl) IN
       /\ store' = out.store
       /\ lastOp' = [NoOp EXCEPT !.op = "put", !.key = key, !.data = data,
                                 !.ttl = ttl, !.raised = out.raised,
                                 !.ok = IF out.raised THEN FALSE ELSE out.ret,
                                 !.prev = PrevData(store, key)]
       /\ lastPut' = IF (~out.raised) /\ out.ret
                     THEN StoreSet(lastPut, key,
                                   [data |-> data, ttl |-> ttl, at |-> now])
                     ELSE lastPut
       /\ inflight' = AfterRun(t, "put", out.store)
    /\ overlap' = inflight[t].raced
    /\ UNCHANGED <<now, heap, conc, ext, sec, http, rest>>

\* The loop runs t's get_cached_data call to its end.
RunGet(t) ==
    /\ inflight[t].op = "get"
    /\ LET key == inflight[t].key
           out == get_cached_data(store, now, key) IN
       /\ store' = out.store
       /\ lastOp' = [NoOp EXCEPT !.op = "get", !.key = key,
                                 !.raised = out.raised,
                                 !.val = IF out.raised THEN None ELSE out.ret,
                                 !.prev = PrevData(store, key)]
       /\ inflight' = AfterRun(t, "get", out.store)
    /\ overlap' = inflight[t].raced
    /\ UNCHANGED <<now, heap, lastPut, conc, ext, sec, http, rest>>

\* The loop runs t's clear_cache call to its end.
RunClear(t) ==
    /\ inflight[t].op = "clear"
    /\ LET pattern == inflight[t].pattern
           out == clear_cache(store, pattern) IN
       /\ store' = out.store
       /\ lastOp' = [NoOp EXCEPT !.op = "clear", !.pattern = pattern,
                                 !.raised = out.raised,
                                 !.count = IF out.raised THEN 0 ELSE out.ret]
       /\ lastPut' = [k \in { x \in DOMAIN lastPut : ~Cleared(pattern, x) }
                         |-> lastPut[k]]
       /\ inflight' = AfterRun(t, "clear", out.store)
    /\ overlap' = inflight[t].raced
    /\ UNCHANGED <<now, heap, conc, ext, sec, http, rest>>

\* The clock advances while calls are in flight.
LoopTick ==
    /\ now < ConcMaxTime
    /\ now' = now + 1
    /\ lastOp' = [NoOp EXCEPT !.op = "tick"]
    /\ UNCHANGED <<store, heap, lastPut, conc, tools>>

NextLoop ==
    \/ \E t \in Tasks, call \in LoopCalls : Schedule(t, call)
    \/ \E t \in Tasks : RunPut(t)
    \/ \E t \in Tasks : RunGet(t)
    \/ \E t \in Tasks : RunClear(t)
    \/ LoopTick

SpecLoop == Init /\ [][NextLoop]_vars

\* ------------------------------------------------- calls of the extractor

\* The caller extracts from the arguments it holds.
ExtractDataFields ==
    LET out == [extract_data_fields(source_data, field_mapping)
                   EXCEPT !.cacheOp = lastOp.op] IN
    /\ extracted' = out
    /\ firstExtracted' = IF firstExtracted.called THEN firstExtracted ELSE out
    /\ UNCHANGED <<source_data, field_mapping, otherCalled>>
    /\ UNCHANGED <<store, now, seq, conc, sec, http, loop, rest>>

\* Extraction for every source and mapping a caller may hold.
InitExtract ==
    /\ InitCache
    /\ \E in \in ExtractInputs : InitArguments(in)
    /\ InitSecrets
    /\ InitHttp
    /\ InitLoop
    /\ InitRest

NextExtract ==
    \/ ExtractDataFields

SpecExtract == InitExtract /\ [][NextExtract]_vars

\* After its first call, the caller extracts from other arguments.
ExtractOther(in) ==
    /\ firstExtracted.called
    /\ in # <<source_data, field_mapping>>
    /\ extract_data_fields(in[1], in[2]).called
    /\ otherCalled' = TRUE
    /\ UNCHANGED <<source_data, field_mapping, extracted, firstExtracted>>
    /\ UNCHANGED <<store, now, seq, conc, sec, http, loop, rest>>

\* Extraction mixed with calls of the cache and with other extractions.
InitMixed ==
    /\ InitCache
    /\ \E in \in FewInputs : InitArguments(in)
    /\ InitSecrets
    /\ InitHttp
    /\ InitLoop
    /\ InitRest

NextMixed ==
    \/ ExtractDataFields
    \/ \E in \in FewInputs : ExtractOther(in)
    \/ \E key \in ConcKeys, data \in Refs : CacheData(key, data, MaxTtl)
    \/ \E key \in ConcKeys : GetCachedData(key)
    \/ ClearCache({})

SpecMixed == InitMixed /\ [][NextMixed]_vars

\* --------------------------------------------------- calls for a secret

\* A caller asks for the secret `secret_name`; the key vault service, if it
\* is called, answers with `vault`.
GetSecret(secret_name, vault) ==
    LET r == get_secret(vaultCalls, secret_name, vault) IN
    /\ Len(vaultCalls) < MaxVaultCalls
    /\ vaultCalls' = r.calls
    /\ lastSecret' = r.out
    /\ UNCHANGED <<store, now, seq, conc, ext, http, loop, rest>>

NextSecret ==
    \/ \E secret_name \in SecretNames, vault \in VaultOutcomes :
          GetSecret(secret_name, vault)

SpecSecret == Init /\ [][NextSecret]_vars

\* ------------------------------------------------------- calls of HTTP

\* A caller requests `url`; the hosts the requests reach answer with
\* `answers`.
HttpRequest(url, answers) ==
    LET r == http_request(httpSession, url, answers) IN
    /\ Len(requestLog) + Len(r.out.sent) <= MaxRequests
    /\ httpSession' = r.session
    /\ requestLog' = requestLog \o r.out.sent
    /\ lastHttp' = r.out
    /\ UNCHANGED <<store, now, seq, conc, ext, sec, loop, rest>>

NextHttp ==
    \/ \E url \in Urls, answers \in AnswerSeqs : HttpRequest(url, answers)

SpecHttp == Init /\ [][NextHttp]_vars

\* --------------------------------------------- validate_api_response tool

\* The tool validate_api_response of main.py, called with the arguments held.
ValidateApiResponse ==
    LET out == validate_api_response(validation.response_data,
                                     validation.required_fields,
                                     validation.response_type) IN
    /\ validation' = [validation EXCEPT !.called = TRUE,
                                        !.valid = out.valid,
                                        !.missing_fields = out.missing_fields,
                                        !.errors = out.errors,
                                        !.raised = out.raised]
    /\ UNCHANGED <<store, now, seq, conc, ext, sec, http, loop, metrics, ai>>

\* Validation for every response and list of required fields a caller may
\* hold.
InitValidate ==
    /\ InitCache
    /\ InitArguments(<<EmptyDict, <<>> >>)
    /\ InitSecrets
    /\ InitHttp
    /\ InitLoop
    /\ \E in \in ValidateInputs : validation = NoValidation(in)
    /\ metrics = NoMetrics(<<NoItems, <<>> >>)
    /\ InitAi

NextValidate ==
    \/ ValidateApiResponse

SpecValidate == InitValidate /\ [][NextValidate]_vars

\* ------------------------------------------------- calculate_metrics tool

\* The tool calculate_metrics of main.py, called with the arguments held.
CalculateMetrics ==
    LET out == calculate_metrics(metrics.input_data, metrics.calculations) IN
    /\ metrics' = [metrics EXCEPT !.called = TRUE, !.raised = out.raised,
                                  !.exc = out.exc, !.ret = out.ret]
    /\ UNCHANGED <<store, now, seq, conc, ext, sec, http, loop, validation, ai>>

\* Metrics for every input and list of calculations a caller may hold.
InitMetrics ==
    /\ InitCache
    /\ InitArguments(<<EmptyDict, <<>> >>)
    /\ InitSecrets
    /\ InitHttp
    /\ InitLoop
    /\ validation = NoValidation(<<EmptyDict, <<>>, "json">>)
    /\ \E in \in MetricsInputs : metrics = NoMetrics(in)
    /\ InitAi

NextMetrics ==
    \/ CalculateMetrics

SpecMetrics == InitMetrics /\ [][NextMetrics]_vars

\* ------------------------------------------------- calls of ai_completion

(***************************************************************************)
(* ai_completion calls as tasks of the event loop.  A call runs until it   *)
(* awaits: at line 25 it awaits the key vault service, at line 67 the      *)
(* request to OpenAI, and while it waits the loop runs the other tasks.    *)
(***************************************************************************)

\* Task t calls ai_completion while no key is cached: line 24 finds
\* _openai_key None and line 25 queries the key vault and awaits the answer.
CompletionQueries(t) ==
    /\ completions[t].at = "idle"
    /\ openai_key = None
    /\ Len(vaultCalls) < MaxVaultCalls
    /\ vaultCalls' = Append(vaultCalls, "OPENAI-API-KEY")
    /\ completions' = [completions EXCEPT ![t] = AtLine("line25", None)]
    /\ UNCHANGED <<openai_key, retrievals, lastSecret>>
    /\ UNCHANGED <<store, now, seq, conc, ext, http, loop, validation, metrics>>

\* Task t calls ai_completion with a key cached: line 26 returns it and the
\* call goes on to the request of line 67.
CompletionHasKey(t) ==
    /\ completions[t].at = "idle"
    /\ openai_key # None
    /\ completions' = [completions EXCEPT ![t] = AtLine("line67", openai_key)]
    /\ UNCHANGED <<openai_key, retrievals>>
    /\ UNCHANGED <<store, now, seq, conc, ext, sec, http, loop, validation, metrics>>

\* The key vault answers task t's query: with a value, which line 25
\* assigns to _openai_key and line 49 to api_key, or with an exception, which leaves line 25 and
\* ends the call at lines 80-82.
Retrieved(t, vault) ==
    /\ completions[t].at = "line25"
    /\ IF vault.raised
       THEN /\ retrievals' = [retrievals EXCEPT !.failed = @ + 1]
            /\ completions' = [completions EXCEPT ![t] = AtLine("idle", None)]
            /\ UNCHANGED openai_key
       ELSE /\ retrievals' = [retrievals EXCEPT !.succeeded = @ + 1]
            /\ completions' = [completions EXCEPT ![t] = AtLine("line67", vault.value)]
            /\ openai_key' = vault.value
    /\ UNCHANGED <<store, now, seq, conc, ext, sec, http, loop, validation, metrics>>

\* The request of line 67 returns or raises, and task t's call ends.
Completed(t) ==
    /\ completions[t].at = "line67"
    /\ completions' = [completions EXCEPT ![t] = AtLine("idle", None)]
    /\ UNCHANGED <<openai_key, retrievals>>
    /\ UNCHANGED <<store, now, seq, conc, ext, sec, http, loop, validation, metrics>>

NextAi ==
    \/ \E t \in Tasks : CompletionQueries(t)
    \/ \E t \in Tasks : CompletionHasKey(t)
    \/ \E t \in Tasks, vault \in VaultOutcomes : Retrieved(t, vault)
    \/ \E t \in Tasks : Completed(t)

SpecAi == Init /\ [][NextAi]_vars

\* ------------------------------------------------------------- properties

\* The step is a call of get_cached_data, put or clear_cache: lastOp' is the
\* call and its result, the unprimed variables are the state it found.
GetStep == lastOp'.op = "get"
PutStep == lastOp'.op = "put"
ClearStep == lastOp'.op = "clear"

\* The expiry time the last successful put of k asked for.
PutExpiry(k) == lastPut[k].at + lastPut[k].ttl

\* C1: a get(k) that finds an entry returns absent and deletes exactly that
\* entry (one entry fewer) when now > expires_at, and returns the stored value,
\* leaving the store as it is, when now <= expires_at: no get returns the
\* value of an entry with now > expires_at.
C1_LazyExpiry ==
    [][ (GetStep /\ lastOp'.key \in DOMAIN store) =>
          LET k == lastOp'.key IN
          IF now > store[k].expires_at
          THEN /\ lastOp'.val = None
               /\ DOMAIN store' = (DOMAIN store) \ {k}
               /\ Cardinality(DOMAIN store') = Cardinality(DOMAIN store) - 1
               /\ \A x \in DOMAIN store' : store'[x] = store[x]
          ELSE /\ lastOp'.val = store[k].data
               /\ store' = store ]_vars

\* A get has just found an expired entry, returned absent and deleted it.
C1_Witness ==
    /\ lastOp.op = "get"
    /\ lastOp.prev # None
    /\ lastOp.val = None
    /\ lastOp.key \notin DOMAIN store
    /\ lastOp.key \in DOMAIN lastPut
    /\ now > PutExpiry(lastOp.key)

\* A get(k) before the expiry of the last put(k, v, ttl > 0), with no
\* put(k) or matching clear since, returns v.
RoundTrip ==
    (GetStep /\ lastOp'.key \in DOMAIN lastPut) =>
        LET k == lastOp'.key IN
        (lastPut[k].ttl > 0 /\ now <= PutExpiry(k)) => lastOp'.val = lastPut[k].data

\* C2 as stated: every put with ttl > 0 returns true, and the round trip.
C2_Original ==
    [][ /\ (PutStep /\ lastOp'.ttl > 0) => (~lastOp'.raised /\ lastOp'.ok)
        /\ RoundTrip ]_vars

\* C2 as amended: every put with ttl > 0 whose expiry time now + ttl is a
\* representable datetime returns true (the others return false), and a get(k)
\* before the expiry of the last successful put(k, v, ttl > 0), with no put(k)
\* or matching clear since, returns exactly v.
C2_RoundTrip ==
    [][ /\ (PutStep /\ lastOp'.ttl > 0) =>
              /\ ~lastOp'.raised
              /\ lastOp'.ok = (now + lastOp'.ttl <= DatetimeMax)
        /\ RoundTrip ]_vars

\* A get at the very expiry time of a put with ttl > 0 has returned its value.
C2_Witness ==
    /\ lastOp.op = "get"
    /\ lastOp.key \in DOMAIN lastPut
    /\ lastPut[lastOp.key].ttl > 0
    /\ now = PutExpiry(lastOp.key)
    /\ now > lastPut[lastOp.key].at
    /\ lastOp.val = lastPut[lastOp.key].data

\* A get that returns a value returns that of the latest put of its key that
\* returned true.
ReadsLatest ==
    (GetStep /\ lastOp'.val # None) =>
        /\ lastOp'.key \in DOMAIN lastPut
        /\ lastOp'.val = lastPut[lastOp'.key].data

\* The entry of the call's key is the one this put asked for.
Replaced ==
    LET k == lastOp'.key IN
    /\ k \in DOMAIN store'
    /\ store'[k].data = lastOp'.data
    /\ store'[k].expires_at = now + lastOp'.ttl
    /\ \A x \in (DOMAIN store) \ {k} : x \in DOMAIN store' /\ store'[x] = store[x]

\* C3 as stated: every put(k, v, ttl) on a key that has an entry leaves under
\* k the entry with value v and expires_at = now + ttl, and a get that returns
\* a value returns that of the latest put.
C3_Original ==
    [][ /\ (PutStep /\ lastOp'.key \in DOMAIN store) => Replaced
        /\ ReadsLatest ]_vars

\* C3 as amended: a put(k, v, ttl) that returns true leaves under k the entry
\* with value v and expires_at = now + ttl, whatever entry (live, expired or
\* none) k had, and a get that returns a value returns that of the latest
\* such put of its key.
C3_LastWriteWins ==
    [][ /\ (PutStep /\ lastOp'.ok) =>
              /\ Replaced
              /\ lastPut'[lastOp'.key] =
                    [data |-> lastOp'.data, ttl |-> lastOp'.ttl, at |-> now]
        /\ ReadsLatest ]_vars

\* A put has just replaced an entry that held another value.
C3_Witness ==
    /\ lastOp.op = "put"
    /\ lastOp.ok
    /\ lastOp.prev # None
    /\ lastOp.prev # store[lastOp.key].data

\* C4 as stated, for the ttl values 0 and -1: the put returns true and
\* stores the entry, and the next get of the key returns absent.
C4_ZeroTtlExpired ==
    [][ /\ (PutStep /\ lastOp'.ttl \in {0 - 1, 0}) =>
              (lastOp'.ok /\ lastOp'.key \in DOMAIN store')
        /\ (GetStep /\ lastOp.op = "put" /\ lastOp.key = lastOp'.key
                    /\ lastOp.ttl \in {0 - 1, 0}) =>
              lastOp'.val = None ]_vars

C6_FullClear ==
    [][ /\ (ClearStep /\ lastOp'.pattern = {}) =>
              /\ lastOp'.count = Cardinality(DOMAIN store)
              /\ store' = EmptyStore
        /\ (GetStep /\ lastOp'.key \notin DOMAIN lastPut) =>
              (lastOp'.val = None /\ store' = store) ]_vars

\* clear(absent) has just emptied a store of two entries.
C6_Witness ==
    /\ lastOp.op = "clear"
    /\ lastOp.pattern = {}
    /\ lastOp.count = 2
    /\ store = EmptyStore

\* C7: no call raises to its caller; put returns a boolean, get a cached
\* value or absent, clear a count; a put whose expiry time cannot be computed
\* returns false.
C7_Total ==
    /\ ~lastOp.raised
    /\ lastOp.op = "put" =>
          /\ lastOp.ok \in BOOLEAN
          /\ ExpiryOverflows(now, lastOp.ttl) => ~lastOp.ok
    /\ lastOp.op = "get" => lastOp.val \in Refs \cup {None}
    /\ lastOp.op = "clear" => lastOp.count \in 0 .. Cardinality(Keys)

\* A put whose expiry time cannot be computed has just returned false.
C7_Witness ==
    /\ lastOp.op = "put"
    /\ ExpiryOverflows(now, lastOp.ttl)
    /\ ~lastOp.ok
    /\ ~lastOp.raised

\* C9 as stated: when the caller changes the value a get returned, the
\* content of every stored entry stays what it was.
C9_Snapshot ==
    [][ lastOp'.op = "mutate" =>
          \A k \in DOMAIN store : heap'[store'[k].data] = heap[store[k].data] ]_vars

\* C10: a get(k) that finds no entry for k returns absent and leaves the
\* store unchanged.
C10_Miss ==
    [][ (GetStep /\ lastOp'.key \notin DOMAIN store) =>
          (lastOp'.val = None /\ store' = store) ]_vars

\* A get has just missed a key whose entry an earlier get had deleted.
C10_Witness ==
    /\ lastOp.op = "get"
    /\ lastOp.prev = None
    /\ lastOp.val = None
    /\ lastOp.key \in DOMAIN lastPut
    /\ lastOp.key \notin DOMAIN store

\* C8: in every interleaving, a get that returns a value has read that value
\* and the expires_at it compared with the clock from one and the same entry,
\* the whole of which a single put had stored.
C8_NoTornRead ==
    \A t \in Tasks :
        (pc[t] = "idle" /\ frame[t].op = "get" /\ frame[t].val # None) =>
            /\ frame[t].val_src = frame[t].exp_src
            /\ frame[t].val = frame[t].exp_src.data

\* A get is about to return the data of the entry it read, while a put
\* running meanwhile has replaced that entry in the store by one with another
\* value and another expires_at.
C8_Witness ==
    \E t \in Tasks :
        /\ pc[t] = "g112"
        /\ frame[t].key \in DOMAIN store
        /\ store[frame[t].key].data # frame[t].cache_entry.data
        /\ store[frame[t].key].expires_at # frame[t].cache_entry.expires_at

\* ------------------------------------------- properties of the extractor

\* The output field names a mapping asks for.
Requested(mapping) == { mapping[i][1] : i \in 1 .. Len(mapping) }

\* The items of the mapping the caller holds.
Items == 1 .. Len(field_mapping)

\* The call returned a dict to its caller.
ExtractReturned == extracted.called /\ ~extracted.raised

\* Every part of item i's path was gone through and none raised.
Resolved(i) ==
    /\ i <= Len(extracted.trails)
    /\ Len(extracted.trails[i]) = Len(split(field_mapping[i][2], "."))
    /\ \A j \in 1 .. Len(extracted.trails[i]) : extracted.trails[i][j].exc = "none"

\* The values a list or a dict holds.
Members(v) ==
    IF v.t = "list" THEN { v.l[n] : n \in 1 .. Len(v.l) }
    ELSE IF v.t = "dict" THEN { v.m[k] : k \in DOMAIN v.m }
    ELSE {}

\* C11: completeness of extract.  Every call of extract_data_fields, for
\* every source and mapping, hands its caller a result whose keys are exactly
\* the mapping's output field names, each with a value reached in the source
\* or None.
C11_Complete ==
    extracted.called =>
        /\ ~extracted.raised
        /\ DOMAIN extracted.ret = Requested(field_mapping)
        /\ \A i \in Items :
              \/ extracted.ret[field_mapping[i][1]] = Null
              \/ /\ Resolved(i)
                 /\ extracted.ret[field_mapping[i][1]]
                       = extracted.trails[i][Len(extracted.trails[i])].to

\* What the call gives for item i when the mapping holds that item only.
Alone(i) == extract_data_fields(source_data, << field_mapping[i] >>)

\* C12: independence of fields.  Each item of the mapping is resolved on its
\* own: whenever an item alone gives a value, the call with the whole mapping
\* returns and gives the same value for it, whatever becomes of the others.
C12_Independent ==
    extracted.called =>
        \A i \in Items :
            ~Alone(i).raised =>
                /\ ~extracted.raised
                /\ extracted.ret[field_mapping[i][1]] = Alone(i).ret[field_mapping[i][1]]

\* The result of the example of test_ai_tools.
ExampleResult ==
    ("temperature" :> Num("20.5")) @@ ("condition" :> Str(<<"s", "u", "n", "n", "y">>))
       @@ ("city" :> Str(<<"P", "a", "r", "i", "s">>))

\* C13: resolved value.  When every part of a path resolves, the returned
\* dict maps the field to the value reached by going from the source through
\* one member after the other, as it is, nested or not; the example mapping
\* gives 20.5, 'sunny' and 'Paris' on the example source.
C13_ResolvedValue ==
    ExtractReturned =>
        /\ \A i \in Items :
              Resolved(i) =>
                 LET steps == extracted.trails[i] IN
                 /\ steps[1].at = source_data
                 /\ \A j \in 1 .. Len(steps) : steps[j].to \in Members(steps[j].at)
                 /\ \A j \in 2 .. Len(steps) : steps[j].at = steps[j - 1].to
                 /\ extracted.ret[field_mapping[i][1]] = steps[Len(steps)].to
        /\ (source_data = ExampleSource /\ field_mapping = ExampleMapping)
              => extracted.ret = ExampleResult

\* The example mapping has been extracted from the example source.
C13_Witness ==
    /\ ExtractReturned
    /\ source_data = ExampleSource
    /\ field_mapping = ExampleMapping
    /\ \A i \in Items : Resolved(i)
    /\ extracted.ret["condition"] = Str(<<"s", "u", "n", "n", "y">>)

\* Step j of item i of the last call.
StepOf(i, j) == extracted.trails[i][j]

\* The places of the steps gone through in the last call.
StepPlaces ==
    UNION { { <<i, j>> : j \in 1 .. Len(extracted.trails[i]) } :
               i \in 1 .. Len(extracted.trails) }

\* Item i's path was given up at step j: no step follows it, and a call that
\* returns gives None for the field.
GivenUpAt(i, j) ==
    /\ StepOf(i, j).exc # "none"
    /\ j = Len(extracted.trails[i])
    /\ ExtractReturned => extracted.ret[field_mapping[i][1]] = Null

\* The part is written as a non-negative integer: decimal digits only.
Numeric(part) == part # <<>> /\ \A n \in 1 .. Len(part) : part[n] \in DecimalChars

\* C14: numeric segment rule.  A part written as a non-negative integer n
\* succeeds iff the value it is applied to is a list and 0 <= n < its length,
\* and then moves to element n; on a dict, a scalar or None, or out of range,
\* the path is given up.
C14_NumericSegment ==
    extracted.called =>
        \A p \in StepPlaces :
            LET st == StepOf(p[1], p[2])
                n == IntValue(st.part, 1, 0) IN
            Numeric(st.part) =>
                IF st.at.t = "list" /\ 0 <= n /\ n < Len(st.at.l)
                THEN st.exc = "none" /\ st.to = st.at.l[n + 1]
                ELSE GivenUpAt(p[1], p[2])

\* Index 1 has been taken from a list inside a list, and the element returned.
C14_Witness ==
    /\ ExtractReturned
    /\ source_data = NestedSource
    /\ \E p \in StepPlaces :
          /\ p[2] = 3
          /\ StepOf(p[1], 3).part = <<"1">>
          /\ StepOf(p[1], 3).at = List(<< Str(<<"p">>), Str(<<"q">>) >>)
          /\ StepOf(p[1], 3).exc = "none"
          /\ extracted.ret[field_mapping[p[1]][1]] = Str(<<"q">>)

\* C15: string segment rule.  A part that is not all digits succeeds iff the
\* value it is applied to is a dict holding it as a key, and then moves to
\* that key's value; on a list, a scalar or None, or when the key is missing,
\* the path is given up.
C15_StringSegment ==
    extracted.called =>
        \A p \in StepPlaces :
            LET st == StepOf(p[1], p[2]) IN
            ~isdigit(st.part) =>
                IF st.at.t = "dict" /\ st.part \in DOMAIN st.at.m
                THEN st.exc = "none" /\ st.to = st.at.m[st.part]
                ELSE GivenUpAt(p[1], p[2])

\* A key has been looked up in a dict inside a dict and its value returned, and
\* another item's path given up on a key looked up in a list.
C15_Witness ==
    /\ ExtractReturned
    /\ source_data = NestedSource
    /\ field_mapping = << <<"f", <<"a", ".", "a">> >>, <<"g", <<"b", ".", "a">> >> >>
    /\ StepOf(1, 2).exc = "none"
    /\ extracted.ret["f"] = Str(<<"x">>)
    /\ StepOf(2, 2).at.t = "list"
    /\ StepOf(2, 2).exc = "KeyError"
    /\ extracted.ret["g"] = Null

\* C16: index-first disambiguation.  A part of digits is never looked up as a
\* key: applied to a dict it reaches nothing, at any depth, even if the dict
\* has that key; path "0" on {"0": "a"} gives None.
C16_IndexFirst ==
    extracted.called =>
        /\ \A p \in StepPlaces :
              LET st == StepOf(p[1], p[2]) IN
              (isdigit(st.part) /\ st.at.t = "dict") => st.exc # "none"
        /\ \A i \in Items :
              (ExtractReturned /\ source_data = DigitKeySource
                  /\ field_mapping[i][2] = <<"0">>)
                 => extracted.ret[field_mapping[i][1]] = Null

\* Path "0" has been extracted from {"0": "a"}.
C16_Witness ==
    /\ ExtractReturned
    /\ source_data = DigitKeySource
    /\ field_mapping = << <<"f", <<"0">> >> >>
    /\ StepOf(1, 1).at.m[<<"0">>] = Str(<<"a">>)
    /\ extracted.ret["f"] = Null

\* C17: no partial results.  When a path is given up at a part, the first, one
\* in the middle or the last, the returned dict maps the field to None, not
\* to the value the parts before it reached; 'main.pressure' gives
\* {"pressure": None} on the example source.
C17_NoPartial ==
    ExtractReturned =>
        /\ \A i \in Items :
              ~Resolved(i) => extracted.ret[field_mapping[i][1]] = Null
        /\ (source_data = ExampleSource /\ field_mapping = PressureMapping)
              => extracted.ret = ("pressure" :> Null)

\* 'main.pressure' has been extracted from the example source: 'main' was
\* reached, 'pressure' was not.
C17_Witness ==
    /\ ExtractReturned
    /\ source_data = ExampleSource
    /\ field_mapping = PressureMapping
    /\ Len(extracted.trails[1]) = 2
    /\ StepOf(1, 1).exc = "none"
    /\ StepOf(1, 1).to.t = "dict"
    /\ StepOf(1, 2).exc = "KeyError"
    /\ extracted.ret["pressure"] = Null

\* What a caller sees of an extract_data_fields call.
Seen(call) == [raised |-> call.raised, exc |-> call.exc, ret |-> call.ret]

C19_NeverRaises ==
    extracted.called =>
        /\ ~extracted.raised
        /\ source_data = EmptyDict
              => \A i \in Items : extracted.ret[field_mapping[i][1]] = Null

\* ---------------------------------------------- properties of the secrets

\* C20: secret allowlist.  A get_secret call for a name that is not on the
\* allowlist raises SecurityError, the access-denied kind, and asks the key
\* vault service for nothing; every name the service is asked for through
\* get_secret is on the allowlist.
C20_SecretAllowlist ==
    [][ /\ \A n \in 1 .. Len(vaultCalls') : vaultCalls'[n] \in ALLOWED_SECRETS
        /\ (lastSecret'.called /\ lastSecret'.name \notin ALLOWED_SECRETS)
              => /\ lastSecret'.exc = "SecurityError"
                 /\ vaultCalls' = vaultCalls
      ]_vars

\* After a secret was retrieved, a name that differs from an allowed one by
\* its case only has been refused.
C20_Witness ==
    /\ lastSecret.called
    /\ lastSecret.name = "owm-api-key"
    /\ lastSecret.exc = "SecurityError"
    /\ vaultCalls = << "OWM-API-KEY" >>

\* ------------------------------------------ properties of the HTTP requests

\* C21: host allowlist.  A call whose URL names a host that is not on the
\* allowlist raises SecurityError without creating a session or sending a
\* request, and no request at all is sent to a host that is not on the
\* allowlist.
C21_HostAllowlist ==
    [][ /\ \A n \in 1 .. Len(requestLog') : <<requestLog'[n]>> \in ALLOWED_DOMAINS
        /\ (lastHttp'.called /\ netloc(lastHttp'.url) \notin ALLOWED_DOMAINS)
              => /\ lastHttp'.exc = "SecurityError"
                 /\ lastHttp'.sent = <<>>
                 /\ requestLog' = requestLog
                 /\ httpSession' = httpSession
      ]_vars

\* ------------------------------------------ further properties of the cache

\* The entry of key k is the same before and after the step, or k has none
\* before and after.
SameEntry(k) ==
    /\ (k \in DOMAIN store) = (k \in DOMAIN store')
    /\ k \in DOMAIN store => store'[k] = store[k]

\* C22: lazy expiration only.  An expired entry of key k stays as it is over
\* every step, a clock advance or a call for another key included, unless the
\* step is a get of k, a clear with no pattern or with a pattern that occurs
\* in k, or a put of k.
C22_NoSweep ==
    [][ \A k \in Keys :
           (k \in DOMAIN store /\ now > store[k].expires_at)
              => \/ SameEntry(k)
                 \/ GetStep /\ lastOp'.key = k
                 \/ ClearStep /\ Cleared(lastOp'.pattern, k)
                 \/ PutStep /\ lastOp'.key = k
      ]_vars

\* An entry that expired before the clock's last reading is still in the
\* store after a get of another key found that key's entry expired and
\* removed it.
C22_Witness ==
    /\ lastOp.op = "get"
    /\ lastOp.prev # None
    /\ lastOp.val = None
    /\ lastOp.key \notin DOMAIN store
    /\ \E k \in Keys \ {lastOp.key} :
          /\ k \in DOMAIN store
          /\ now > store[k].expires_at + 1

\* C23: no lost fresh write.  With calls in flight together on the event loop,
\* a put that returns true leaves its entry in the store; the deletion of a
\* get removes only an entry that has expired, which the entry of a put with
\* ttl > 0 has not before now + ttl; and a get(k) before the expiry of the
\* last successful put(k, v, ttl > 0) returns v and leaves the entry.
C23_NoLostWrite ==
    [][ /\ (PutStep /\ lastOp'.ok)
              => /\ lastOp'.key \in DOMAIN store'
                 /\ store'[lastOp'.key].data = lastOp'.data
                 /\ store'[lastOp'.key].expires_at = now + lastOp'.ttl
        /\ GetStep
              => /\ \A k \in DOMAIN store \ DOMAIN store' :
                       k = lastOp'.key /\ now > store[k].expires_at
                 /\ \A k \in DOMAIN store' : SameEntry(k)
        /\ (GetStep /\ lastOp'.key \in DOMAIN lastPut
               /\ lastPut[lastOp'.key].ttl > 0
               /\ now <= PutExpiry(lastOp'.key))
              => /\ lastOp'.val = lastPut[lastOp'.key].data
                 /\ store' = store
      ]_vars

\* A get deleted the expired entry of the key while a put with ttl > 0 of that
\* key was in flight, and the put, run after it, has left its entry.
C23_Witness ==
    /\ lastOp.op = "put"
    /\ lastOp.ok
    /\ lastOp.ttl > 0
    /\ overlap = "get"
    /\ lastOp.prev = None
    /\ lastOp.key \in DOMAIN store
    /\ store[lastOp.key].data = lastOp.data

\* C24: the count of clear.  With calls in flight together on the event loop,
\* a clear returns the number of entries its run took out of the store, the
\* entries it leaves are as they were, and it returns 0 only when it has
\* removed nothing.
C24_ClearCount ==
    [][ ClearStep
           => /\ ~lastOp'.raised
              /\ DOMAIN store' \subseteq DOMAIN store
              /\ \A k \in DOMAIN store' : SameEntry(k)
              /\ lastOp'.count = Cardinality(DOMAIN store \ DOMAIN store')
              /\ (lastOp'.count = 0) => (store' = store)
      ]_vars

\* A clear removed an entry that a put had written while the clear was in
\* flight, and returned 1, with a call of the other task still in flight.
C24_Witness ==
    /\ lastOp.op = "clear"
    /\ lastOp.count = 1
    /\ overlap = "put"
    /\ store = EmptyStore
    /\ \E t \in Tasks : inflight[t].op \in {"get", "put"}

\* The value under key part of value v, and whether there is one.
HasKey(v, part) == v.t = "dict" /\ part \in DOMAIN v.m

\* The value reached from v along the first n parts; asked only where every
\* part before is a key.
RECURSIVE Along(_, _, _)
Along(v, parts, n) == IF n = 0 THEN v ELSE Along(v, parts, n - 1).m[parts[n]]

\* A required field is present in the response: each of its parts is a key of
\* the map that the parts before it lead to.
Present(response, field) ==
    LET parts == split(field.s, ".") IN
    \A n \in 1 .. Len(parts) :
       /\ \A i \in 1 .. (n - 1) : HasKey(Along(response, parts, i - 1), parts[i])
       => HasKey(Along(response, parts, n - 1), parts[n])

\* The places of the required fields that are absent.
RECURSIVE AbsentFields(_, _)
AbsentFields(response, fields) ==
    IF fields = <<>> THEN <<>>
    ELSE (IF Present(response, Head(fields)) THEN <<>> ELSE <<Head(fields)>>)
         \o AbsentFields(response, Tail(fields))

\* C28: validation of a response.  validate_api_response never raises.  On a
\* response that is a map, with required fields that are names, valid is true
\* exactly when every required field is present, a dotted field being present
\* when each of its parts is a key of a map along the path; missing_fields is
\* the list of the absent required fields in their order; and valid = true
\* leaves missing_fields and errors empty.
C28_Validate ==
    /\ ~validation.raised
    /\ (validation.called /\ validation.valid)
          => validation.missing_fields = <<>> /\ validation.errors = <<>>
    /\ (validation.called /\ validation.response_data.t = "dict"
           /\ \A i \in 1 .. Len(validation.required_fields) :
                 validation.required_fields[i].t = "str")
          => /\ validation.valid =
                   \A i \in 1 .. Len(validation.required_fields) :
                      Present(validation.response_data, validation.required_fields[i])
             /\ validation.missing_fields =
                   AbsentFields(validation.response_data, validation.required_fields)

\* One dotted field led through two maps to a value and was found present,
\* and another, which meets a list on its way, is the one missing field.
C28_Witness ==
    /\ validation.called
    /\ validation.response_data = NestedSource
    /\ validation.required_fields = <<Str(<<"a", ".", "a">>), Str(<<"b", ".", "a">>)>>
    /\ ~validation.valid
    /\ validation.missing_fields = <<Str(<<"b", ".", "a">>)>>

\* The name, operation and fields of the i-th calculation asked for.
CalcName(i) == Get(metrics.calculations[i], "name", Str("unknown"))
CalcOperation(i) == Get(metrics.calculations[i], "operation", "")
CalcFields(i) == Get(metrics.calculations[i], "fields", <<>>)

\* The input under a field, a missing one counted as 0.
Input(f) == IF f \in DOMAIN metrics.input_data THEN metrics.input_data[f] ELSE Integer(0)

\* The fields of the i-th calculation all have numbers.
Computable(i) == \A k \in 1 .. Len(CalcFields(i)) : Input(CalcFields(i)[k]).t = "int"

\* The sum of the inputs under the first n fields of the i-th calculation.
RECURSIVE Total(_, _)
Total(i, n) == IF n = 0 THEN 0 ELSE Total(i, n - 1) + Input(CalcFields(i)[n]).n

\* The entry for the i-th calculation is what C29 says of it.
AsCalculated(i) ==
    LET v == metrics.ret[CalcName(i)]
        n == Len(CalcFields(i)) IN
    /\ (CalcOperation(i) = "subtract" /\ n = 2 /\ Computable(i))
          => v = Integer(Input(CalcFields(i)[1]).n - Input(CalcFields(i)[2]).n)
    /\ (CalcOperation(i) = "average" /\ n >= 2 /\ Computable(i))
          => v.t = "float" /\ v.num * n = Total(i, n) * v.den
    /\ \/ CalcOperation(i) \notin {"subtract", "add", "average", "max", "min"}
       \/ CalcOperation(i) = "subtract" /\ n # 2
       \/ CalcOperation(i) # "subtract" /\ n < 2
       \/ ~Computable(i)
       => v = Null

\* The entries of a call that has returned: one for each name, and the entry
\* of a name is that of the last calculation of the name.
Entries ==
    /\ DOMAIN metrics.ret = { CalcName(i) : i \in 1 .. Len(metrics.calculations) }
    /\ \A i \in 1 .. Len(metrics.calculations) :
          (\A j \in (i + 1) .. Len(metrics.calculations) : CalcName(j) # CalcName(i))
             => AsCalculated(i)

\* C29 as stated: calculate_metrics returns one entry for each calculation
\* name, the difference for 'subtract' over two fields and the sum divided by
\* the count for 'average' over two or more, missing fields counted as 0, and
\* null for an unknown operation, a wrong number of fields or a calculation
\* that fails, whatever the other calculations are.
C29_Metrics ==
    metrics.called => (~metrics.raised /\ Entries)

\* No key vault query is made once a retrieval has succeeded.
QueriedWhileUnset == (vaultCalls' # vaultCalls) => retrievals.succeeded = 0

\* A retrieval that fails leaves the cached key as it was, which is unset
\* while no retrieval has succeeded.
FailureKeepsKey ==
    /\ (retrievals'.failed > retrievals.failed) => openai_key' = openai_key
    /\ (retrievals.succeeded = 0) => openai_key = None

\* C30 as stated: an AIProcessingTools instance retrieves the OpenAI key from
\* the key vault at most once, whatever ai_completion calls are made and
\* however they overlap; it queries the key vault again only while no
\* retrieval has succeeded, and a failed retrieval leaves the cached key
\* unset.
C30_RetrievedOnce ==
    [][ /\ retrievals'.succeeded <= 1
        /\ QueriedWhileUnset
        /\ FailureKeepsKey
      ]_vars

\* C25: put returns false only when the write fails, and then leaves the
\* store as it was.  A put returns false only when its expiry time cannot be
\* computed, and a put that returns false changes no entry: the key gets
\* none, and an entry it has keeps its data and expires_at.
C25_FailedPut ==
    [][ (PutStep /\ ~lastOp'.ok)
           => /\ ExpiryOverflows(now, lastOp'.ttl)
              /\ ~lastOp'.raised
              /\ store' = store
      ]_vars

\* A put for a key that has an entry returned false, and the entry is there.
C25_Witness ==
    /\ lastOp.op = "put"
    /\ ~lastOp.ok
    /\ lastOp.prev # None
    /\ lastOp.data # lastOp.prev
    /\ lastOp.key \in DOMAIN store
    /\ store[lastOp.key].data = lastOp.prev

\* C26: frame of put and get.  A put or a get of key k leaves the entry of
\* every other key as it was, and a get that finds an entry that has not
\* expired leaves the whole store as it was, the entry's expires_at included.
C26_Frame ==
    [][ /\ (PutStep \/ GetStep) => \A k \in Keys \ {lastOp'.key} : SameEntry(k)
        /\ (GetStep /\ lastOp'.key \in DOMAIN store
               /\ ~(now > store[lastOp'.key].expires_at))
              => store' = store
      ]_vars

\* A get returned the data of an entry put at an earlier clock reading, while
\* the other key has an entry too; the entry has the expiry time of its put.
C26_Witness ==
    /\ lastOp.op = "get"
    /\ lastOp.val # None
    /\ DOMAIN store = Keys
    /\ lastPut[lastOp.key].at < now
    /\ store[lastOp.key].expires_at = PutExpiry(lastOp.key)

\* C27: clear with the empty string.  A clear whose pattern is the empty
\* string does what a clear without pattern does in the same store: it
\* removes every entry and returns the number of entries there were.
C27_EmptyPattern ==
    [][ (ClearStep /\ lastOp'.pattern = {<<>>})
           => /\ store' = EmptyStore
              /\ ~lastOp'.raised
              /\ lastOp'.count = Cardinality(DOMAIN store)
              /\ store' = clear_cache(store, {}).store
              /\ lastOp'.count = clear_cache(store, {}).ret
      ]_vars

\* A clear with the empty string removed two entries.
C27_Witness ==
    /\ lastOp.op = "clear"
    /\ lastOp.pattern = {<<>>}
    /\ lastOp.count = 2
    /\ store = EmptyStore

====
